---- MODULE Spec2Model ----
(***************************************************************************)
(* Smart doorbell capstone (lesson 20): the event-driven capture           *)
(* controller.  The model follows the sketch: the four-state machine of    *)
(* loop(), the debounced button poll, doCapture / doNotify with their      *)
(* collaborators (camera, microphone, SD card, BLE), the in-memory ring    *)
(* history and the id recovery done by initSD at boot.                     *)
(*                                                                         *)
(* Time is the value of millis().  One step of Loop is one execution of    *)
(* loop(): the handler of the current state runs to completion and the     *)
(* iteration ends with its delay.  The button pin, the BLE link, the       *)
(* clients of the web server and a power cycle are the environment.  With  *)
(* a request waiting, the handler that server.handleClient() dispatches    *)
(* is a step of its own before the step of the state machine; the loop of  *)
(* handleStream takes a step for each esp_camera_fb_get and each frame.    *)
(*                                                                         *)
(* Three parts are also taken on their own: isButtonPressed polled every   *)
(* 10 ms against a bouncing pin, the unsigned differences of millis()      *)
(* across the wrap of the counter (the word is scaled to WORD_BITS bits),  *)
(* and captureAndSaveJPEG of the motion-detection sketch (lesson 18) with  *)
(* the calls it makes to the camera driver.                                *)
(***************************************************************************)
EXTENDS Integers, Sequences, FiniteSets, TLC

VARIABLES
    \* ---- program state (globals of the sketch) ----
    currentState,           \* State currentState
    stateEnteredAt,         \* unsigned long stateEnteredAt
    ringCount,              \* int ringCount
    lastPhotoFile,          \* String lastPhotoFile
    lastButtonPress,        \* unsigned long lastButtonPress
    lastButtonState,        \* bool lastButtonState
    sdAvailable,            \* bool sdAvailable
    wifiAvailable,          \* bool wifiAvailable
    cameraAvailable,        \* bool cameraAvailable
    ringHistory,            \* RingEvent ringHistory[MAX_RING_HISTORY]
    ringHistoryCount,       \* int ringHistoryCount
    bleDeviceConnected,     \* bool bleDeviceConnected
    bleOldDeviceConnected,  \* bool bleOldDeviceConnected
    \* ---- collaborators and environment ----
    now,                    \* millis()
    pin,                    \* digitalRead(BUTTON_PIN)
    files,                  \* SD card, /doorbell: file name -> content
    logRows,                \* SD card, /doorbell/log.csv: the rows
    advertising,            \* BLE advertising is running
    notified,               \* notifications sent on the characteristic
    boot,                   \* number of the current boot (1 = first)
    connects,               \* BLE connections made in this boot
    micInstalled,           \* the I2S driver of the microphone is installed
    request,                \* HTTP request waiting for server.handleClient()
    response,               \* the last answer sent with server.send / streamFile
    clientConnected,        \* client.connected() of the live-feed client
    loopPos,                \* position of loop(): before or after the call of
                            \* server.handleClient(), or inside handleStream
    frames,                 \* frames sent on live feeds in this boot
    fbOutstanding,          \* frame buffers obtained and not yet returned
    \* ---- history variables of the verification ----
    created,                \* Events created by doCapture in this boot
    captured,               \* per Event: did the frame grab and recordAudio succeed
    edgeState,              \* currentState when the pin last fell
    sinceIdle,              \* Events created since the controller last left IDLE
    notifyRuns,             \* doNotify calls in this boot
    idsAssigned,            \* ids assigned to Events over all boots
    steps,                  \* steps of the Events of this boot, in order
    bounces,                \* raw transitions of the pin in the burst followed
    bounceAt,               \* millis() at the last of them
    spaced,                 \* two of them were DEBOUNCE_MS or more apart
    accepts,                \* polls of the burst that returned true
    \* ---- the motion-detection sketch (lesson 18), which shares millis(),
    \*      sdAvailable and the card with the variables above ----
    cameraConfig,           \* configuration the camera driver is initialised with
    captureNumber,          \* int captureNumber
    detectionCount,         \* int detectionCount
    lastDetectionMillis,    \* unsigned long lastDetectionMillis
    lastCaptureFile,        \* String lastCaptureFile
    driverCalls,            \* calls made by the last captureAndSaveJPEG()
    \* ---- the unsigned long arithmetic followed across a wrap of millis() ----
    sinceRecorded,          \* milliseconds that truly passed since the time
                            \* in stateEnteredAt and lastButtonPress
    cooldownTest,           \* millis() - stateEnteredAt >= COOLDOWN_MS, as computed
    debounceTest            \* millis() - lastButtonPress > DEBOUNCE_MS, as computed

vars == << currentState, stateEnteredAt, ringCount, lastPhotoFile,
           lastButtonPress, lastButtonState, sdAvailable, wifiAvailable,
           cameraAvailable, ringHistory, ringHistoryCount,
           bleDeviceConnected, bleOldDeviceConnected, now, pin, files,
           logRows, advertising, notified, boot, connects, created,
           captured, edgeState, sinceIdle, notifyRuns, idsAssigned,
           micInstalled, request, response, clientConnected, loopPos,
           frames, fbOutstanding, steps, bounces, bounceAt, spaced, accepts,
           cameraConfig, captureNumber, detectionCount, lastDetectionMillis,
           lastCaptureFile, driverCalls, sinceRecorded, cooldownTest,
           debounceTest >>

\* The history of a burst of raw pin transitions, kept where isButtonPressed
\* is followed poll by poll.
burst == << bounces, bounceAt, spaced, accepts >>

\* The globals of the motion-detection sketch and its camera.
motion == << cameraConfig, captureNumber, detectionCount, lastDetectionMillis,
            lastCaptureFile, driverCalls >>

\* The clock tests followed across a wrap.
wrap == << sinceRecorded, cooldownTest, debounceTest >>

\* The Remote Interface as loop() sees it.
web == << request, response, clientConnected, frames >>

\* The state that the controller owns.
controller == << currentState, stateEnteredAt, ringCount, ringHistory,
                 ringHistoryCount, lastButtonPress, lastButtonState >>

\* What is neither the controller's nor the Remote Interface's, apart from
\* the clock and the frame buffers.
others == << lastPhotoFile, sdAvailable, wifiAvailable, cameraAvailable,
             bleDeviceConnected, bleOldDeviceConnected, pin, files, logRows,
             advertising, notified, boot, connects, created, captured,
             edgeState, sinceIdle, notifyRuns, idsAssigned, micInstalled,
             steps, burst, motion, wrap >>

-----------------------------------------------------------------------------
(* Constants of the sketch *)

COOLDOWN_MS == 3000
AUDIO_DURATION_MS == 2000
DEBOUNCE_MS == 50
BLE_RESTART_DELAY_MS == 500
SETUP_DELAY_MS == 1000
STREAM_DELAY_MS == 100
FB_COUNT == 2
LOOP_DELAY_MS == 10

\* Constants of the motion-detection sketch
MOTION_COOLDOWN_MS == 5000
FRAME_DELAY_MS == 100
DEINIT_DELAY_MS == 100
SETTLE_FRAMES == 3
SETTLE_DELAY_MS == 50

HIGH == TRUE
LOW == FALSE

STATE_IDLE == "IDLE"
STATE_CAPTURING == "CAPTURING"
STATE_NOTIFYING == "NOTIFYING"
STATE_COOLDOWN == "COOLDOWN"
State == {STATE_IDLE, STATE_CAPTURING, STATE_NOTIFYING, STATE_COOLDOWN}

(* Bounds of the model *)

\* Capacity of the ring history (50 in the sketch, scaled down here).
MAX_RING_HISTORY == 2
\* Events created in one boot.
MaxRings == 2
\* BLE connections made in one boot.
MaxConnects == 1
\* Time an idle controller is followed for after it became idle.
MaxIdle == 2000
\* Boots (power cycles) followed.
MaxBoots == 2
\* Events created in one boot when several boots are followed.
RestartRings == 2
\* Events created in one boot when loop() is scheduled for ever.
FairRings == 1
\* Events created in one boot when the history is filled; more than it holds.
RingRounds == 3
\* Events created in one boot when centrals connect and disconnect.
BleRings == 2
\* Events created in one boot when the web server has clients.
WebRings == 1
\* Frames of live feed for which the clock is followed in one boot.
MaxFrames == 1
\* Highest id asked for in a photo request.
MaxPhotoId == 2
\* Events created in one boot when subsystems failed to initialise.
DegradedRings == 1

\* Raw transitions of the pin in the burst that is followed poll by poll.
MaxBounces == 3
\* Polls of the button that are followed, one every LOOP_DELAY_MS.
ButtonPolls == 12

\* Detections of motion followed in one boot.
MaxDetections == 2
\* Time the motion detector is followed for after its cooldown has run out.
MotionIdle == 300

\* Bits of unsigned long (32 on the ESP32, scaled down here); the runs that
\* start at boot stay far below 2^WORD_BITS milliseconds.
WORD_BITS == 17

\* Time from the switch statement of one modelled loop iteration to the
\* start of the next: delay(10) and the iterations in between that find
\* nothing to do, or one iteration that handleClient keeps busy.
LoopDelays == {1000}

-----------------------------------------------------------------------------
(* millis() arithmetic *)

\* The values of unsigned long are 0 .. Word - 1.
Word == 2 ^ WORD_BITS

\* The difference taken in a wider signed type, which does not wrap.
ElapsedSigned(t, since) == t - since

\* t - since for two unsigned long: the difference modulo Word.
Elapsed(t, since) == (t - since) % Word

-----------------------------------------------------------------------------
(* File names: snprintf("/doorbell/ring_%04d.<ext>", id) and its parsing *)

RECURSIVE Decimal(_)
Decimal(n) == IF n < 10 THEN << n >> ELSE Append(Decimal(n \div 10), n % 10)

RECURSIVE ZeroPad(_, _)
ZeroPad(ds, width) == IF Len(ds) >= width THEN ds ELSE ZeroPad(<< 0 >> \o ds, width)

\* "%04d"
Fmt04d(n) == ZeroPad(Decimal(n), 4)

\* "ring_%04d" followed by the extension
RingFileName(ringId, ext) == [prefix |-> "ring_", digits |-> Fmt04d(ringId), ext |-> ext]

RECURSIVE ToInt(_)
ToInt(ds) == IF ds = << >> THEN 0
             ELSE 10 * ToInt(SubSeq(ds, 1, Len(ds) - 1)) + ds[Len(ds)]

\* name.substring(5, 9).toInt(): the four characters after "ring_"
NameNumber(name) == ToInt(SubSeq(name.digits, 1, 4))

-----------------------------------------------------------------------------
(* Strings of the sketch that hold a file name *)

\* String(""): the empty String
EmptyString == [prefix |-> "", digits |-> << >>, ext |-> ""]

\* What a write leaves in a file: the data of one ring of one boot.
Content(b, ringId) == [boot |-> b, ring |-> ringId]

\* SD.open(name, FILE_WRITE) followed by write/flush/close: the file is
\* created, or truncated and rewritten when it exists.
WriteFile(fs, name, content) == [n \in DOMAIN fs \cup {name} |-> IF n = name THEN content ELSE fs[n]]

-----------------------------------------------------------------------------
(* Button *)

\* isButtonPressed() reacting to the level instead of the falling edge.
isButtonPressedLevel(lastState, lastPress, cur, t) ==
    IF cur = LOW /\ Elapsed(t, lastPress) > DEBOUNCE_MS
    THEN [ret |-> TRUE, lastButtonPress |-> t, lastButtonState |-> cur]
    ELSE [ret |-> FALSE, lastButtonPress |-> lastPress, lastButtonState |-> cur]

\* isButtonPressed() that does not remember the level of an accepted press.
isButtonPressedForgets(lastState, lastPress, cur, t) ==
    IF lastState = HIGH /\ cur = LOW /\ Elapsed(t, lastPress) > DEBOUNCE_MS
    THEN [ret |-> TRUE, lastButtonPress |-> t, lastButtonState |-> lastState]
    ELSE [ret |-> FALSE, lastButtonPress |-> lastPress, lastButtonState |-> cur]

\* isButtonPressed(): result and the two globals it assigns.
\*   cur = digitalRead(BUTTON_PIN), t = millis()
isButtonPressed(lastState, lastPress, cur, t) ==
    IF lastState = HIGH /\ cur = LOW /\ Elapsed(t, lastPress) > DEBOUNCE_MS
    THEN [ret |-> TRUE, lastButtonPress |-> t, lastButtonState |-> cur]
    ELSE [ret |-> FALSE, lastButtonPress |-> lastPress, lastButtonState |-> cur]

-----------------------------------------------------------------------------
(* Camera, microphone, SD card, BLE *)

\* capturePhoto(ringId): the String returned and the card afterwards.
\*   fbOk: esp_camera_fb_get() returned a frame; openOk: SD.open succeeded
capturePhoto(ringId, fbOk, openOk, sd, fs, content) ==
    IF ~fbOk
    THEN [ret |-> EmptyString, files |-> fs]
    ELSE [ret |-> RingFileName(ringId, ".jpg"),
          files |-> IF sd /\ openOk
                    THEN WriteFile(fs, RingFileName(ringId, ".jpg"), content)
                    ELSE fs]

\* capturePhoto() returning early, without esp_camera_fb_return, when the
\* file cannot be opened.
capturePhotoFramesLeak(fbOk, openOk, sd) ==
    IF ~fbOk THEN 0
    ELSE IF sd /\ ~openOk THEN 1
    ELSE 1 - 1

\* capturePhoto(ringId): the frame buffers it holds when it returns, on each
\* of its paths (every path after a successful esp_camera_fb_get reaches
\* esp_camera_fb_return).
capturePhotoFrames(fbOk, openOk, sd) ==
    IF ~fbOk THEN 0
    ELSE IF ~sd THEN 1 - 1
    ELSE IF ~openOk THEN 1 - 1
    ELSE 1 - 1

\* What the i2s_read calls of recordAudio put into the file: the samples of
\* this ring, or nothing when the I2S driver is not installed.
AudioData(b, ringId, mic) == IF mic THEN Content(b, ringId) ELSE Content(b, 0)

\* recordAudio(ringId): result, the card afterwards and the time it took.
recordAudio(ringId, openOk, sd, fs, content) ==
    IF ~sd \/ ~openOk
    THEN [ret |-> FALSE, files |-> fs, took |-> 0]
    ELSE [ret |-> TRUE,
          files |-> WriteFile(fs, RingFileName(ringId, ".raw"), content),
          took |-> AUDIO_DURATION_MS]

\* initSD(), the scan of /doorbell: the highest number among ring_*.jpg,
\* starting from the value ringCount has (0 at boot).
RECURSIVE ScanRingCount(_, _)
ScanRingCount(names, count) ==
    IF names = {} THEN count
    ELSE LET name == CHOOSE n \in names : TRUE
             num == NameNumber(name)
             next == IF name.prefix = "ring_" /\ name.ext = ".jpg" /\ num > count
                     THEN num ELSE count
         IN ScanRingCount(names \ {name}, next)

\* logRingEvent(ringId): the rows of log.csv afterwards (the header line
\* written into an empty file is not a row).
logRingEvent(ringId, sd, openOk, rows, t) ==
    IF sd /\ openOk
    THEN Append(rows, [id |-> ringId, timestamp_ms |-> t, filename |-> Fmt04d(ringId)])
    ELSE rows

\* sendBLENotification() that notifies without looking at the link.
sendBLENotificationAlways(ringId, connected, t, sent) ==
    Append(sent, [id |-> ringId, seconds |-> t \div 1000])

\* sendBLENotification(ringId): the notifications sent afterwards.
sendBLENotification(ringId, connected, t, sent) ==
    IF connected
    THEN Append(sent, [id |-> ringId, seconds |-> t \div 1000])
    ELSE sent

-----------------------------------------------------------------------------
(* The steps of an Event, in the order in which the code takes them *)

\* ok: the frame was obtained / recordAudio returned true / log.csv was
\* opened / a central was connected
Step(id, step, ok) == [id |-> id, step |-> step, ok |-> ok]

\* doCapture(): capturePhoto, then recordAudio
doCaptureSteps(ringId, fbOk, audioOk) ==
    << Step(ringId, "image", fbOk), Step(ringId, "audio", audioOk) >>

\* doNotify() calling sendBLENotification before logRingEvent.
doNotifyStepsSwapped(ringId, logOpened, connected) ==
    << Step(ringId, "notify", connected), Step(ringId, "log", logOpened) >>

\* doNotify(): logRingEvent, then sendBLENotification
doNotifySteps(ringId, logOpened, connected) ==
    << Step(ringId, "log", logOpened), Step(ringId, "notify", connected) >>

-----------------------------------------------------------------------------
(* Ring history *)

RingEvent(id, timestamp, filename) == [id |-> id, timestamp |-> timestamp, filename |-> filename]

\* A default-constructed RingEvent (the array is a zero-initialised global).
NoEvent == RingEvent(0, 0, EmptyString)

\* "Store in ring history" that overwrites the newest entry of a full array
\* instead of shifting the entries down.
StoreInHistoryNoShift(hist, count, ev) ==
    IF count < MAX_RING_HISTORY
    THEN [hist |-> [hist EXCEPT ![count] = ev], count |-> count + 1]
    ELSE [hist |-> [hist EXCEPT ![MAX_RING_HISTORY - 1] = ev], count |-> count]

\* "Store in ring history" that treats the full array as a circular buffer
\* and overwrites its oldest entry in place.
StoreInHistoryCircular(hist, count, ev) ==
    IF count < MAX_RING_HISTORY
    THEN [hist |-> [hist EXCEPT ![count] = ev], count |-> count + 1]
    ELSE [hist |-> [hist EXCEPT ![(ev.id - 1) % MAX_RING_HISTORY] = ev], count |-> count]

\* doCapture(), "Store in ring history": the array and its count afterwards.
StoreInHistory(hist, count, ev) ==
    IF count < MAX_RING_HISTORY
    THEN [hist |-> [hist EXCEPT ![count] = ev], count |-> count + 1]
    ELSE [hist |-> [i \in 0 .. MAX_RING_HISTORY - 1 |->
                       IF i < MAX_RING_HISTORY - 1 THEN hist[i + 1] ELSE ev],
          count |-> count]

-----------------------------------------------------------------------------
(* loop(): the part before the state machine *)

\* "Handle BLE reconnection advertising": advertising is restarted after
\* a delay(500) when the link was up at the previous check and is down now.
BleRestarts(connected, old) == ~connected /\ old
BleOldAfter(connected, old) == connected
BleDelay(connected, old) == IF BleRestarts(connected, old) THEN BLE_RESTART_DELAY_MS ELSE 0

\* millis() when the switch statement runs in this iteration
SwitchTime == now + BleDelay(bleDeviceConnected, bleOldDeviceConnected)

LoopPrefix ==
    /\ bleOldDeviceConnected' = BleOldAfter(bleDeviceConnected, bleOldDeviceConnected)
    /\ advertising' = (advertising \/ BleRestarts(bleDeviceConnected, bleOldDeviceConnected))
    /\ loopPos' = "top"
    /\ UNCHANGED << bleDeviceConnected, wifiAvailable, cameraAvailable, sdAvailable, pin,
                    boot, connects, micInstalled, web, burst, motion, wrap >>

-----------------------------------------------------------------------------
(* loop(): the state machine *)

\* The cooldown test with > in place of >=.
CooldownOverStrict(t, enteredAt) == Elapsed(t, enteredAt) > COOLDOWN_MS

\* The cooldown test of STATE_COOLDOWN.
CooldownOver(t, enteredAt) == Elapsed(t, enteredAt) >= COOLDOWN_MS

\* case STATE_IDLE
LoopIdle(d, cap) ==
    LET t == SwitchTime
        r == isButtonPressed(lastButtonState, lastButtonPress, pin, t)
    IN /\ currentState = STATE_IDLE
       /\ Elapsed(now, stateEnteredAt) <= MaxIdle
       /\ r.ret => Len(created) < cap
       /\ LoopPrefix
       /\ lastButtonState' = r.lastButtonState
       /\ lastButtonPress' = r.lastButtonPress
       /\ currentState' = IF r.ret THEN STATE_CAPTURING ELSE STATE_IDLE
       /\ stateEnteredAt' = IF r.ret THEN t ELSE stateEnteredAt
       /\ now' = t + d
       /\ UNCHANGED << ringCount, lastPhotoFile, ringHistory, ringHistoryCount,
                       files, logRows, notified, created, captured, edgeState,
                       sinceIdle, notifyRuns, idsAssigned, fbOutstanding, steps >>

\* case STATE_CAPTURING in which recordAudio never returns without a card.
LoopCapturingHangs(d, fbOk, jpgOpenOk, rawOpenOk) ==
    LET t == SwitchTime
        currentRingId == ringCount + 1
        photo == capturePhoto(currentRingId, fbOk, jpgOpenOk, sdAvailable, files, Content(boot, currentRingId))
        audio == recordAudio(currentRingId, rawOpenOk, sdAvailable, photo.files,
                             AudioData(boot, currentRingId, micInstalled))
        done == t + audio.took
        ev == RingEvent(currentRingId, done, photo.ret)
        h == StoreInHistory(ringHistory, ringHistoryCount, ev)
    IN /\ currentState = STATE_CAPTURING
       /\ sdAvailable
       /\ LoopPrefix
       /\ ringCount' = currentRingId
       /\ lastPhotoFile' = IF photo.ret # EmptyString THEN photo.ret ELSE lastPhotoFile
       /\ files' = audio.files
       /\ ringHistory' = h.hist
       /\ ringHistoryCount' = h.count
       /\ currentState' = STATE_NOTIFYING
       /\ stateEnteredAt' = done
       /\ now' = done + d
       /\ created' = Append(created, ev)
       /\ captured' = Append(captured, [fb |-> fbOk, audio |-> audio.ret])
       /\ sinceIdle' = sinceIdle + 1
       /\ idsAssigned' = idsAssigned \cup {currentRingId}
       /\ fbOutstanding' = fbOutstanding + capturePhotoFrames(fbOk, jpgOpenOk, sdAvailable)
       /\ steps' = steps \o doCaptureSteps(currentRingId, fbOk, audio.ret)
       /\ UNCHANGED << lastButtonPress, lastButtonState, logRows, notified,
                       edgeState, notifyRuns >>

\* case STATE_CAPTURING: doCapture(), then the transition
LoopCapturing(d, fbOk, jpgOpenOk, rawOpenOk) ==
    LET t == SwitchTime
        currentRingId == ringCount + 1
        photo == capturePhoto(currentRingId, fbOk, jpgOpenOk, sdAvailable, files, Content(boot, currentRingId))
        audio == recordAudio(currentRingId, rawOpenOk, sdAvailable, photo.files,
                             AudioData(boot, currentRingId, micInstalled))
        done == t + audio.took
        ev == RingEvent(currentRingId, done, photo.ret)
        h == StoreInHistory(ringHistory, ringHistoryCount, ev)
    IN /\ currentState = STATE_CAPTURING
       /\ LoopPrefix
       /\ ringCount' = currentRingId
       /\ lastPhotoFile' = IF photo.ret # EmptyString THEN photo.ret ELSE lastPhotoFile
       /\ files' = audio.files
       /\ ringHistory' = h.hist
       /\ ringHistoryCount' = h.count
       /\ currentState' = STATE_NOTIFYING
       /\ stateEnteredAt' = done
       /\ now' = done + d
       /\ created' = Append(created, ev)
       /\ captured' = Append(captured, [fb |-> fbOk, audio |-> audio.ret])
       /\ sinceIdle' = sinceIdle + 1
       /\ idsAssigned' = idsAssigned \cup {currentRingId}
       /\ fbOutstanding' = fbOutstanding + capturePhotoFrames(fbOk, jpgOpenOk, sdAvailable)
       /\ steps' = steps \o doCaptureSteps(currentRingId, fbOk, audio.ret)
       /\ UNCHANGED << lastButtonPress, lastButtonState, logRows, notified,
                       edgeState, notifyRuns >>

\* case STATE_NOTIFYING that logs only the Events that have an image.
LoopNotifyingPhotoOnly(d, logOpenOk) ==
    LET t == SwitchTime
        hasPhoto == created[Len(created)].filename # EmptyString
    IN /\ currentState = STATE_NOTIFYING
       /\ LoopPrefix
       /\ logRows' = logRingEvent(ringCount, sdAvailable /\ hasPhoto, logOpenOk, logRows, t)
       /\ notified' = sendBLENotification(ringCount, bleDeviceConnected, t, notified)
       /\ currentState' = STATE_COOLDOWN
       /\ stateEnteredAt' = t
       /\ now' = t + d
       /\ notifyRuns' = notifyRuns + 1
       /\ steps' = steps \o doNotifySteps(ringCount, sdAvailable /\ logOpenOk, bleDeviceConnected)
       /\ UNCHANGED << ringCount, lastPhotoFile, lastButtonPress, lastButtonState,
                       ringHistory, ringHistoryCount, files, created, captured,
                       edgeState, sinceIdle, idsAssigned, fbOutstanding >>

\* case STATE_NOTIFYING: doNotify(), then the transition
LoopNotifying(d, logOpenOk) ==
    LET t == SwitchTime
    IN /\ currentState = STATE_NOTIFYING
       /\ LoopPrefix
       /\ logRows' = logRingEvent(ringCount, sdAvailable, logOpenOk, logRows, t)
       /\ notified' = sendBLENotification(ringCount, bleDeviceConnected, t, notified)
       /\ currentState' = STATE_COOLDOWN
       /\ stateEnteredAt' = t
       /\ now' = t + d
       /\ notifyRuns' = notifyRuns + 1
       /\ steps' = steps \o doNotifySteps(ringCount, sdAvailable /\ logOpenOk, bleDeviceConnected)
       /\ UNCHANGED << ringCount, lastPhotoFile, lastButtonPress, lastButtonState,
                       ringHistory, ringHistoryCount, files, created, captured,
                       edgeState, sinceIdle, idsAssigned, fbOutstanding >>

\* case STATE_COOLDOWN that starts the next capture without a press.
LoopCooldownRecapture(d) ==
    LET t == SwitchTime
        over == CooldownOver(t, stateEnteredAt)
    IN /\ currentState = STATE_COOLDOWN
       /\ LoopPrefix
       /\ currentState' = IF over THEN STATE_CAPTURING ELSE STATE_COOLDOWN
       /\ stateEnteredAt' = IF over THEN t ELSE stateEnteredAt
       /\ now' = t + d
       /\ sinceIdle' = IF over THEN 0 ELSE sinceIdle
       /\ UNCHANGED << ringCount, lastPhotoFile, lastButtonPress, lastButtonState,
                       ringHistory, ringHistoryCount, files, logRows, notified,
                       created, captured, edgeState, notifyRuns, idsAssigned,
                       fbOutstanding, steps >>

\* case STATE_COOLDOWN that ends the cooldown when the button is down.
LoopCooldownPolls(d) ==
    LET t == SwitchTime
        over == CooldownOver(t, stateEnteredAt) \/ pin = LOW
    IN /\ currentState = STATE_COOLDOWN
       /\ LoopPrefix
       /\ currentState' = IF over THEN STATE_IDLE ELSE STATE_COOLDOWN
       /\ stateEnteredAt' = IF over THEN t ELSE stateEnteredAt
       /\ now' = t + d
       /\ sinceIdle' = IF over THEN 0 ELSE sinceIdle
       /\ UNCHANGED << ringCount, lastPhotoFile, lastButtonPress, lastButtonState,
                       ringHistory, ringHistoryCount, files, logRows, notified,
                       created, captured, edgeState, notifyRuns, idsAssigned,
                       fbOutstanding, steps >>

\* case STATE_COOLDOWN
LoopCooldown(d) ==
    LET t == SwitchTime
        over == CooldownOver(t, stateEnteredAt)
    IN /\ currentState = STATE_COOLDOWN
       /\ LoopPrefix
       /\ currentState' = IF over THEN STATE_IDLE ELSE STATE_COOLDOWN
       /\ stateEnteredAt' = IF over THEN t ELSE stateEnteredAt
       /\ now' = t + d
       /\ sinceIdle' = IF over THEN 0 ELSE sinceIdle
       /\ UNCHANGED << ringCount, lastPhotoFile, lastButtonPress, lastButtonState,
                       ringHistory, ringHistoryCount, files, logRows, notified,
                       created, captured, edgeState, notifyRuns, idsAssigned,
                       fbOutstanding, steps >>

\* One execution of loop().
\*   cap: the Events followed in one boot; OpenOk: the outcomes of SD.open
Loop(cap, OpenOk) ==
    \E d \in LoopDelays :
        \/ LoopIdle(d, cap)
        \/ \E fbOk \in (IF cameraAvailable /\ fbOutstanding < FB_COUNT
                         THEN BOOLEAN ELSE {FALSE}) :
             \E jpgOpenOk \in OpenOk, rawOpenOk \in OpenOk :
                LoopCapturing(d, fbOk, jpgOpenOk, rawOpenOk)
        \/ \E logOpenOk \in OpenOk : LoopNotifying(d, logOpenOk)
        \/ LoopCooldown(d)

-----------------------------------------------------------------------------
(* Environment *)

\* The button is pressed or released.
PinChange ==
    /\ pin' = ~pin
    /\ edgeState' = IF pin = HIGH THEN currentState ELSE edgeState
    /\ UNCHANGED << currentState, stateEnteredAt, ringCount, lastPhotoFile,
                    lastButtonPress, lastButtonState, sdAvailable, wifiAvailable,
                    cameraAvailable, ringHistory, ringHistoryCount,
                    bleDeviceConnected, bleOldDeviceConnected, now, files,
                    logRows, advertising, notified, boot, connects, created,
                    captured, sinceIdle, notifyRuns, idsAssigned, micInstalled,
                    web, loopPos, fbOutstanding, steps,
                    burst, motion, wrap >>

\* onConnect that sends the notification of the last Event to the central
\* that has just connected.
onConnectReplays ==
    /\ advertising /\ ~bleDeviceConnected
    /\ connects < MaxConnects
    /\ connects' = connects + 1
    /\ bleDeviceConnected' = TRUE
    /\ advertising' = FALSE
    /\ notified' = IF ringCount > 0
                   THEN Append(notified, [id |-> ringCount, seconds |-> now \div 1000])
                   ELSE notified
    /\ UNCHANGED << currentState, stateEnteredAt, ringCount, lastPhotoFile,
                    lastButtonPress, lastButtonState, sdAvailable, wifiAvailable,
                    cameraAvailable, ringHistory, ringHistoryCount,
                    bleOldDeviceConnected, now, pin, files, logRows,
                    boot, created, captured, edgeState, sinceIdle, notifyRuns,
                    idsAssigned, micInstalled, web, loopPos, fbOutstanding, steps,
                    burst, motion, wrap >>

\* DoorbellBLECallbacks::onConnect: a central connects (advertising stops).
onConnect ==
    /\ advertising /\ ~bleDeviceConnected
    /\ connects < MaxConnects
    /\ connects' = connects + 1
    /\ bleDeviceConnected' = TRUE
    /\ advertising' = FALSE
    /\ UNCHANGED << currentState, stateEnteredAt, ringCount, lastPhotoFile,
                    lastButtonPress, lastButtonState, sdAvailable, wifiAvailable,
                    cameraAvailable, ringHistory, ringHistoryCount,
                    bleOldDeviceConnected, now, pin, files, logRows, notified,
                    boot, created, captured, edgeState, sinceIdle, notifyRuns,
                    idsAssigned, micInstalled, web, loopPos, fbOutstanding, steps,
                    burst, motion, wrap >>

\* DoorbellBLECallbacks::onDisconnect
onDisconnect ==
    /\ bleDeviceConnected
    /\ bleDeviceConnected' = FALSE
    /\ UNCHANGED << currentState, stateEnteredAt, ringCount, lastPhotoFile,
                    lastButtonPress, lastButtonState, sdAvailable, wifiAvailable,
                    cameraAvailable, ringHistory, ringHistoryCount,
                    bleOldDeviceConnected, now, pin, files, logRows, advertising,
                    notified, boot, connects, created, captured, edgeState,
                    sinceIdle, notifyRuns, idsAssigned, micInstalled, web,
                    loopPos, fbOutstanding, steps, burst, motion, wrap >>

-----------------------------------------------------------------------------
(* The Trigger Sensor on its own *)

\* isButtonPressed() called in every iteration of a loop that ends with
\* delay(10), whatever it returns: the poll of case STATE_IDLE without the
\* transition that an accepted press makes.
Poll ==
    LET r == isButtonPressed(lastButtonState, lastButtonPress, pin, now)
    IN /\ currentState = STATE_IDLE
       /\ (now - SETUP_DELAY_MS) \div LOOP_DELAY_MS < ButtonPolls
       /\ lastButtonState' = r.lastButtonState
       /\ lastButtonPress' = r.lastButtonPress
       /\ accepts' = IF r.ret THEN accepts + 1 ELSE accepts
       /\ now' = now + LOOP_DELAY_MS
       /\ UNCHANGED << currentState, stateEnteredAt, ringCount, ringHistory,
                       ringHistoryCount, lastPhotoFile, sdAvailable,
                       wifiAvailable, cameraAvailable, bleDeviceConnected,
                       bleOldDeviceConnected, pin, files, logRows, advertising,
                       notified, boot, connects, created, captured, edgeState,
                       sinceIdle, notifyRuns, idsAssigned, micInstalled, steps,
                       web, loopPos, fbOutstanding, bounces, bounceAt, spaced,
                       motion, wrap >>

\* The contact of the button bounces: one raw transition of the pin.
Bounce ==
    /\ bounces < MaxBounces
    /\ pin' = ~pin
    /\ bounces' = bounces + 1
    /\ bounceAt' = now
    /\ spaced' = (spaced \/ (bounces > 0 /\ now - bounceAt >= DEBOUNCE_MS))
    /\ UNCHANGED << controller, lastPhotoFile, sdAvailable, wifiAvailable,
                    cameraAvailable, bleDeviceConnected, bleOldDeviceConnected,
                    files, logRows, advertising, notified, boot, connects,
                    created, captured, edgeState, sinceIdle, notifyRuns,
                    idsAssigned, micInstalled, steps, web, loopPos,
                    fbOutstanding, now, accepts, motion, wrap >>

-----------------------------------------------------------------------------
(* The clock tests across a wrap of millis() *)

\* Values of millis() shortly before it wraps.
WrapStarts == {Word - k : k \in {10, 40, 60, 2990, 3000, 3010}}

\* The controller has run until millis() = r, where a state is entered and a
\* press accepted: stateEnteredAt = millis() and lastButtonPress = millis().
RecordAt(r) ==
    /\ now = SETUP_DELAY_MS /\ stateEnteredAt = SETUP_DELAY_MS
    /\ now' = r
    /\ stateEnteredAt' = r
    /\ lastButtonPress' = r
    /\ UNCHANGED << currentState, ringCount, ringHistory, ringHistoryCount,
                    lastButtonState, others, web, loopPos, fbOutstanding >>

\* d milliseconds later the two tests are evaluated as the code does:
\* the cooldown test of STATE_COOLDOWN and the debounce test that
\* isButtonPressed makes on a falling edge.
ClockTick(d) ==
    LET t == (now + d) % Word
    IN /\ stateEnteredAt # SETUP_DELAY_MS
       /\ sinceRecorded + d < Word
       /\ now' = t
       /\ sinceRecorded' = sinceRecorded + d
       /\ cooldownTest' = CooldownOver(t, stateEnteredAt)
       /\ debounceTest' = isButtonPressed(HIGH, lastButtonPress, LOW, t).ret
       /\ UNCHANGED << controller, lastPhotoFile, sdAvailable, wifiAvailable,
                       cameraAvailable, bleDeviceConnected, bleOldDeviceConnected,
                       pin, files, logRows, advertising, notified, boot, connects,
                       created, captured, edgeState, sinceIdle, notifyRuns,
                       idsAssigned, micInstalled, steps, burst, motion, web,
                       loopPos, fbOutstanding >>

-----------------------------------------------------------------------------
(* The motion-detection sketch: the camera switched between two modes *)

\* "/captures/motion_%04d.jpg"
MotionFileName(n) == [prefix |-> "motion_", digits |-> Fmt04d(n), ext |-> ".jpg"]

\* A call of the camera driver or of the card, with its result.
Call(name, ok) == [call |-> name, ok |-> ok]

\* The configuration the driver holds after one call: esp_camera_deinit
\* leaves it without one, an esp_camera_init that fails as well;
\* initCamera() is esp_camera_init with the grayscale QQVGA configuration.
DriverAfterCall(cfg, c) ==
    IF c.call = "esp_camera_deinit" THEN "none"
    ELSE IF c.call = "esp_camera_init" THEN (IF c.ok THEN "jpeg" ELSE "none")
    ELSE IF c.call = "initCamera" THEN (IF c.ok THEN "grayscale" ELSE "none")
    ELSE cfg

RECURSIVE DriverAfter(_, _)
DriverAfter(cfg, calls) ==
    IF calls = << >> THEN cfg
    ELSE DriverAfter(DriverAfterCall(cfg, Head(calls)), Tail(calls))

\* The calls of captureAndSaveJPEG() when it returns at once after a failed
\* esp_camera_fb_get().
captureCallsNoRestore(sd, jpegOk, fbOk, openOk, grayOk) ==
    IF ~sd THEN << >>
    ELSE IF ~jpegOk
    THEN << Call("esp_camera_deinit", TRUE), Call("esp_camera_init", FALSE),
            Call("initCamera", grayOk) >>
    ELSE IF ~fbOk
    THEN << Call("esp_camera_deinit", TRUE), Call("esp_camera_init", TRUE),
            Call("esp_camera_fb_get", FALSE) >>
    ELSE << Call("esp_camera_deinit", TRUE), Call("esp_camera_init", TRUE),
            Call("esp_camera_fb_get", TRUE), Call("SD.open", openOk),
            Call("esp_camera_fb_return", TRUE), Call("esp_camera_deinit", TRUE),
            Call("initCamera", grayOk) >>

\* The calls that captureAndSaveJPEG() makes on each of its paths, in order
\* (the frames skipped for the auto-exposure are left out).
\*   jpegOk: esp_camera_init with the JPEG configuration succeeded
\*   fbOk: esp_camera_fb_get returned the frame; openOk: SD.open succeeded
\*   grayOk: the esp_camera_init of initCamera() succeeded
captureCalls(sd, jpegOk, fbOk, openOk, grayOk) ==
    IF ~sd THEN << >>
    ELSE IF ~jpegOk
    THEN << Call("esp_camera_deinit", TRUE), Call("esp_camera_init", FALSE),
            Call("initCamera", grayOk) >>
    ELSE IF ~fbOk
    THEN << Call("esp_camera_deinit", TRUE), Call("esp_camera_init", TRUE),
            Call("esp_camera_fb_get", FALSE), Call("esp_camera_deinit", TRUE),
            Call("initCamera", grayOk) >>
    ELSE << Call("esp_camera_deinit", TRUE), Call("esp_camera_init", TRUE),
            Call("esp_camera_fb_get", TRUE), Call("SD.open", openOk),
            Call("esp_camera_fb_return", TRUE), Call("esp_camera_deinit", TRUE),
            Call("initCamera", grayOk) >>

\* captureAndSaveJPEG(): result, globals, card and camera afterwards, and
\* the time its delays took.
captureAndSaveJPEG(sd, cfg, n, last, fs, jpegOk, fbOk, openOk, grayOk, content) ==
    LET calls == captureCalls(sd, jpegOk, fbOk, openOk, grayOk)
        saved == sd /\ jpegOk /\ fbOk
    IN [ ret |-> saved,
         calls |-> calls,
         config |-> DriverAfter(cfg, calls),
         captureNumber |-> IF saved THEN n + 1 ELSE n,
         lastCaptureFile |-> IF saved /\ openOk THEN MotionFileName(n + 1) ELSE last,
         files |-> IF saved /\ openOk
                   THEN WriteFile(fs, MotionFileName(n + 1), content)
                   ELSE fs,
         took |-> IF ~sd THEN 0
                  ELSE IF ~jpegOk THEN DEINIT_DELAY_MS
                  ELSE DEINIT_DELAY_MS + SETTLE_FRAMES * SETTLE_DELAY_MS + DEINIT_DELAY_MS ]

\* setup() of the sketch has returned: it does so only with the camera
\* initialised in grayscale mode and a reference frame taken.
MotionSetup ==
    /\ cameraConfig = "none" /\ detectionCount = 0
    /\ cameraConfig' = DriverAfter(cameraConfig, << Call("initCamera", TRUE) >>)
    /\ driverCalls' = << Call("initCamera", TRUE) >>
    /\ UNCHANGED << controller, lastPhotoFile, sdAvailable, wifiAvailable,
                    cameraAvailable, bleDeviceConnected, bleOldDeviceConnected,
                    pin, files, logRows, advertising, notified, boot, connects,
                    created, captured, edgeState, sinceIdle, notifyRuns,
                    idsAssigned, micInstalled, steps, burst, wrap, web, loopPos,
                    fbOutstanding, now, captureNumber, detectionCount,
                    lastDetectionMillis, lastCaptureFile >>

\* loop() of the sketch
\*   frameOk: captureGrayscaleFrame(currentFrame) succeeded
\*   motionDetected: detectMotion() found MOTION_PERCENT or more changed
MotionLoop ==
    /\ ~(cameraConfig = "none" /\ detectionCount = 0)
    /\ Elapsed(now, lastDetectionMillis) <= MOTION_COOLDOWN_MS + MotionIdle
    /\ \E frameOk \in (IF cameraConfig = "none" THEN {FALSE} ELSE BOOLEAN),
          motionDetected \in (IF detectionCount < MaxDetections THEN BOOLEAN ELSE {FALSE}),
          jpegOk \in BOOLEAN, fbOk \in BOOLEAN, openOk \in BOOLEAN, grayOk \in BOOLEAN :
          LET c == captureAndSaveJPEG(sdAvailable, cameraConfig, captureNumber,
                                      lastCaptureFile, files, jpegOk, fbOk, openOk,
                                      grayOk, Content(boot, captureNumber + 1))
          IN IF frameOk /\ motionDetected
                /\ Elapsed(now, lastDetectionMillis) > MOTION_COOLDOWN_MS
             THEN /\ detectionCount' = detectionCount + 1
                  /\ lastDetectionMillis' = now
                  /\ cameraConfig' = c.config
                  /\ captureNumber' = c.captureNumber
                  /\ lastCaptureFile' = c.lastCaptureFile
                  /\ files' = c.files
                  /\ driverCalls' = c.calls
                  /\ now' = now + c.took + FRAME_DELAY_MS
             ELSE /\ now' = now + FRAME_DELAY_MS
                  /\ UNCHANGED << motion, files >>
    /\ UNCHANGED << controller, lastPhotoFile, sdAvailable, wifiAvailable,
                    cameraAvailable, bleDeviceConnected, bleOldDeviceConnected,
                    pin, logRows, advertising, notified, boot, connects, created,
                    captured, edgeState, sinceIdle, notifyRuns, idsAssigned,
                    micInstalled, steps, burst, wrap, web, loopPos, fbOutstanding >>

-----------------------------------------------------------------------------
(* Remote Interface: the requests and the handlers registered in setup() *)

\* A request: its path and its "id" argument (hasId: server.hasArg("id")).
HttpRequest(path, hasId, id) == [path |-> path, hasId |-> hasId, id |-> id]

NoRequest == HttpRequest("none", FALSE, 0)

Requests ==
    {HttpRequest(p, FALSE, 0) : p \in {"/", "/photo", "/stream", "/status"}}
        \cup {HttpRequest("/photo", TRUE, id) : id \in 1 .. MaxPhotoId}

\* server.send(code, type, body) or server.streamFile(file, type)
HttpResponse(code, type, body) == [code |-> code, type |-> type, body |-> body]

NoResponse == HttpResponse(0, "", "")

\* A client sends a request; the server has one client at a time, and a
\* request that comes in after server.handleClient() has returned is one
\* that the next execution of loop() finds.
Request(r) ==
    /\ wifiAvailable
    /\ request = NoRequest /\ loopPos = "top"
    /\ request' = r
    /\ clientConnected' = (r.path = "/stream")
    /\ UNCHANGED << controller, others, now, fbOutstanding, response, loopPos, frames >>

\* The live-feed client closes the connection.
ClientDisconnect ==
    /\ clientConnected
    /\ clientConnected' = FALSE
    /\ UNCHANGED << controller, others, now, fbOutstanding, request, response,
                    loopPos, frames >>

\* server.handleClient(), called at the top of loop(), has a request for
\* this path to dispatch.
Dispatch(path) == wifiAvailable /\ loopPos = "top" /\ request.path = path

\* handleRoot(): the dashboard page with the ring history
handleRoot ==
    /\ Dispatch("/")
    /\ request' = NoRequest
    /\ response' = HttpResponse(200, "text/html", "dashboard")
    /\ loopPos' = "switch"
    /\ UNCHANGED << controller, others, now, fbOutstanding, clientConnected, frames >>

\* handlePhoto() without the test of server.hasArg("id"): a missing id is
\* read as 0 by toInt().
handlePhotoResponseNoArgTest(req, sd, fs, openOk) ==
    IF ~sd \/ RingFileName(req.id, ".jpg") \notin DOMAIN fs
    THEN HttpResponse(404, "text/plain", "Photo not found")
    ELSE IF ~openOk THEN HttpResponse(500, "text/plain", "Failed to open photo")
    ELSE HttpResponse(200, "image/jpeg", fs[RingFileName(req.id, ".jpg")])

\* handlePhoto(): the answer
\*   openOk: SD.open(filename) succeeded
handlePhotoResponse(req, sd, fs, openOk) ==
    IF ~req.hasId THEN HttpResponse(400, "text/plain", "Missing 'id' parameter")
    ELSE IF ~sd \/ RingFileName(req.id, ".jpg") \notin DOMAIN fs
         THEN HttpResponse(404, "text/plain", "Photo not found")
    ELSE IF ~openOk THEN HttpResponse(500, "text/plain", "Failed to open photo")
    ELSE HttpResponse(200, "image/jpeg", fs[RingFileName(req.id, ".jpg")])

\* handlePhoto()
handlePhoto ==
    /\ Dispatch("/photo")
    /\ request' = NoRequest
    /\ \E openOk \in BOOLEAN :
          response' = handlePhotoResponse(request, sdAvailable, files, openOk)
    /\ loopPos' = "switch"
    /\ UNCHANGED << controller, others, now, fbOutstanding, clientConnected, frames >>

\* The text that handleStatus prints for currentState
StateName(st) ==
    IF st = STATE_IDLE THEN "idle"
    ELSE IF st = STATE_CAPTURING THEN "capturing"
    ELSE IF st = STATE_NOTIFYING THEN "notifying"
    ELSE "cooldown"

\* ESP.getFreeHeap(), as far as it is followed
FreeHeap == {200000}

\* handleStatus(): the JSON object, field by field
StatusJson(rings, connected, sd, t, heap, st) ==
    [ rings |-> rings,
      ble |-> IF connected THEN "connected" ELSE "disconnected",
      sd |-> sd,
      uptime |-> t \div 1000,
      freeHeap |-> heap,
      state |-> StateName(st) ]

\* handleStatus() that also clears the ring history.
handleStatusResets ==
    /\ Dispatch("/status")
    /\ request' = NoRequest
    /\ \E heap \in FreeHeap :
          response' = HttpResponse(200, "application/json",
                                   StatusJson(ringCount, bleDeviceConnected, sdAvailable,
                                              now, heap, currentState))
    /\ ringHistoryCount' = 0
    /\ loopPos' = "switch"
    /\ UNCHANGED << currentState, stateEnteredAt, ringCount, ringHistory,
                    lastButtonPress, lastButtonState, others, now,
                    fbOutstanding, clientConnected, frames >>

\* handleStatus(): the JSON status
handleStatus ==
    /\ Dispatch("/status")
    /\ request' = NoRequest
    /\ \E heap \in FreeHeap :
          response' = HttpResponse(200, "application/json",
                                   StatusJson(ringCount, bleDeviceConnected, sdAvailable,
                                              now, heap, currentState))
    /\ loopPos' = "switch"
    /\ UNCHANGED << controller, others, now, fbOutstanding, clientConnected, frames >>

\* handleStream(), up to the while loop: the header is printed to the client
handleStream ==
    /\ Dispatch("/stream")
    /\ request' = NoRequest
    /\ loopPos' = "loop"
    /\ UNCHANGED << controller, others, now, fbOutstanding, clientConnected,
                    frames, response >>

\* handleStream(), the test of the while loop and esp_camera_fb_get():
\* the handler returns when the client is gone or no frame is obtained.
handleStreamGet ==
    /\ loopPos = "loop"
    /\ IF ~clientConnected
       THEN /\ loopPos' = "switch"
            /\ UNCHANGED << fbOutstanding, clientConnected >>
       ELSE \E fbOk \in (IF cameraAvailable /\ fbOutstanding < FB_COUNT
                          THEN BOOLEAN ELSE {FALSE}) :
               /\ loopPos' = IF fbOk THEN "frame" ELSE "switch"
               /\ fbOutstanding' = IF fbOk THEN fbOutstanding + 1 ELSE fbOutstanding
               /\ clientConnected' = fbOk
    /\ UNCHANGED << controller, others, now, request, response, frames >>

\* handleStream(), the rest of the loop body: the frame is sent and
\* returned, then delay(100).
\*   clocked: the time that the live feed takes is followed
handleStreamSend(clocked) ==
    /\ loopPos = "frame"
    /\ fbOutstanding' = fbOutstanding - 1
    /\ loopPos' = "loop"
    /\ frames' = IF frames < MaxFrames THEN frames + 1 ELSE frames
    /\ now' = IF clocked /\ frames < MaxFrames THEN now + STREAM_DELAY_MS ELSE now
    /\ UNCHANGED << controller, others, request, response, clientConnected >>

\* server.handleClient() with a request waiting
handleClient == handleRoot \/ handlePhoto \/ handleStatus \/ handleStream

\* server.handleClient() has returned in this execution of loop(), or finds
\* nothing to dispatch.
ClientHandled == loopPos = "switch" \/ (loopPos = "top" /\ request = NoRequest)

\* loop() from the return of server.handleClient() on.
LoopWeb(cap, OpenOk) == ClientHandled /\ Loop(cap, OpenOk)

\* The state machine of loop() where SD.open can fail for the image only.
LoopStates(cap) ==
    \E d \in LoopDelays :
        \/ LoopIdle(d, cap)
        \/ \E fbOk \in (IF cameraAvailable /\ fbOutstanding < FB_COUNT
                         THEN BOOLEAN ELSE {FALSE}) :
             \E jpgOpenOk \in BOOLEAN : LoopCapturing(d, fbOk, jpgOpenOk, TRUE)
        \/ LoopNotifying(d, TRUE)
        \/ LoopCooldown(d)

\* loop() with the web server running on a task of its own: the state
\* machine runs while handleStream is in its loop.
LoopFeedConcurrent(cap) == (loopPos = "top" => request = NoRequest) /\ LoopStates(cap)

\* loop() from the return of server.handleClient() on, as LoopWeb.
LoopFeed(cap) == ClientHandled /\ LoopStates(cap)

-----------------------------------------------------------------------------
(* Boot *)

\* setup() that waits for the Wi-Fi connection without a limit on the
\* attempts: it does not return when the connection fails.
AfterSetupWaitsForWifi(fs, camOk, sdOk, wifiOk, linked) ==
    [ currentState |-> IF wifiOk THEN STATE_IDLE ELSE "SETUP",
      stateEnteredAt |-> IF wifiOk THEN SETUP_DELAY_MS ELSE 0,
      now |-> SETUP_DELAY_MS,
      ringCount |-> IF sdOk THEN ScanRingCount(DOMAIN fs, 0) ELSE 0,
      lastPhotoFile |-> EmptyString,
      lastButtonPress |-> 0,
      lastButtonState |-> HIGH,
      sdAvailable |-> sdOk,
      wifiAvailable |-> wifiOk,
      cameraAvailable |-> camOk,
      ringHistory |-> [i \in 0 .. MAX_RING_HISTORY - 1 |-> NoEvent],
      ringHistoryCount |-> 0,
      bleDeviceConnected |-> linked,
      bleOldDeviceConnected |-> FALSE,
      advertising |-> ~linked,
      notified |-> << >>,
      connects |-> IF linked THEN 1 ELSE 0,
      created |-> << >>,
      captured |-> << >>,
      edgeState |-> STATE_IDLE,
      sinceIdle |-> 0,
      notifyRuns |-> 0,
      request |-> NoRequest,
      response |-> NoResponse,
      clientConnected |-> FALSE,
      loopPos |-> "top",
      frames |-> 0,
      fbOutstanding |-> 0,
      steps |-> << >> ]

\* The globals after their initialisers and setup(), on a card holding fs.
\*   camOk, sdOk, wifiOk: the results of initCamera, SD.begin, WiFi connect
\*   linked: a central connected while setup() was still running
AfterSetup(fs, camOk, sdOk, wifiOk, linked) ==
    [ currentState |-> STATE_IDLE,
      stateEnteredAt |-> SETUP_DELAY_MS,
      now |-> SETUP_DELAY_MS,
      ringCount |-> IF sdOk THEN ScanRingCount(DOMAIN fs, 0) ELSE 0,
      lastPhotoFile |-> EmptyString,
      lastButtonPress |-> 0,
      lastButtonState |-> HIGH,
      sdAvailable |-> sdOk,
      wifiAvailable |-> wifiOk,
      cameraAvailable |-> camOk,
      ringHistory |-> [i \in 0 .. MAX_RING_HISTORY - 1 |-> NoEvent],
      ringHistoryCount |-> 0,
      bleDeviceConnected |-> linked,
      bleOldDeviceConnected |-> FALSE,
      advertising |-> ~linked,
      notified |-> << >>,
      connects |-> IF linked THEN 1 ELSE 0,
      created |-> << >>,
      captured |-> << >>,
      edgeState |-> STATE_IDLE,
      sinceIdle |-> 0,
      notifyRuns |-> 0,
      request |-> NoRequest,
      response |-> NoResponse,
      clientConnected |-> FALSE,
      loopPos |-> "top",
      frames |-> 0,
      fbOutstanding |-> 0,
      steps |-> << >> ]

\* First power-on with an empty card.
\*   Cam, Mic, Sd, Wifi: the outcomes of initCamera, initMicrophone, initSD
\*   and the Wi-Fi connection that are followed
InitAll(Cam, Mic, Sd, Wifi, Link) ==
    /\ micInstalled \in Mic
    /\ \E camOk \in Cam, sdOk \in Sd, wifiOk \in Wifi, linked \in Link :
          LET g == AfterSetup(<< >>, camOk, sdOk, wifiOk, linked)
          IN /\ currentState = g.currentState
             /\ stateEnteredAt = g.stateEnteredAt
             /\ now = g.now
             /\ ringCount = g.ringCount
             /\ lastPhotoFile = g.lastPhotoFile
             /\ lastButtonPress = g.lastButtonPress
             /\ lastButtonState = g.lastButtonState
             /\ sdAvailable = g.sdAvailable
             /\ wifiAvailable = g.wifiAvailable
             /\ cameraAvailable = g.cameraAvailable
             /\ ringHistory = g.ringHistory
             /\ ringHistoryCount = g.ringHistoryCount
             /\ bleDeviceConnected = g.bleDeviceConnected
             /\ bleOldDeviceConnected = g.bleOldDeviceConnected
             /\ advertising = g.advertising
             /\ notified = g.notified
             /\ connects = g.connects
             /\ created = g.created
             /\ captured = g.captured
             /\ edgeState = g.edgeState
             /\ sinceIdle = g.sinceIdle
             /\ notifyRuns = g.notifyRuns
             /\ request = g.request
             /\ response = g.response
             /\ clientConnected = g.clientConnected
             /\ loopPos = g.loopPos
             /\ frames = g.frames
             /\ fbOutstanding = g.fbOutstanding
             /\ steps = g.steps
    /\ pin \in {HIGH, LOW}
    /\ files = << >>
    /\ logRows = << >>
    /\ boot = 1
    /\ idsAssigned = {}
    /\ bounces = 0
    /\ bounceAt = 0
    /\ spaced = FALSE
    /\ accepts = 0
    /\ cameraConfig = "none"
    /\ captureNumber = 0
    /\ detectionCount = 0
    /\ lastDetectionMillis = 0
    /\ lastCaptureFile = EmptyString
    /\ driverCalls = << >>
    /\ sinceRecorded = 0
    /\ cooldownTest = FALSE
    /\ debounceTest = FALSE

\* First power-on with an empty card and a working microphone.
InitOf(Cam, Sd, Wifi, Link) == InitAll(Cam, {TRUE}, Sd, Wifi, Link)

\* Power cycle or reset: RAM is lost, the card keeps its files.
Restart ==
    /\ boot < MaxBoots
    /\ boot' = boot + 1
    /\ \E sdOk \in BOOLEAN :
          LET g == AfterSetup(files, cameraAvailable, sdOk, wifiAvailable, FALSE)
          IN /\ currentState' = g.currentState
             /\ stateEnteredAt' = g.stateEnteredAt
             /\ now' = g.now
             /\ ringCount' = g.ringCount
             /\ lastPhotoFile' = g.lastPhotoFile
             /\ lastButtonPress' = g.lastButtonPress
             /\ lastButtonState' = g.lastButtonState
             /\ sdAvailable' = g.sdAvailable
             /\ wifiAvailable' = g.wifiAvailable
             /\ cameraAvailable' = g.cameraAvailable
             /\ ringHistory' = g.ringHistory
             /\ ringHistoryCount' = g.ringHistoryCount
             /\ bleDeviceConnected' = g.bleDeviceConnected
             /\ bleOldDeviceConnected' = g.bleOldDeviceConnected
             /\ advertising' = g.advertising
             /\ notified' = g.notified
             /\ connects' = g.connects
             /\ created' = g.created
             /\ captured' = g.captured
             /\ edgeState' = g.edgeState
             /\ sinceIdle' = g.sinceIdle
             /\ notifyRuns' = g.notifyRuns
             /\ request' = g.request
             /\ response' = g.response
             /\ clientConnected' = g.clientConnected
             /\ loopPos' = g.loopPos
             /\ frames' = g.frames
             /\ fbOutstanding' = g.fbOutstanding
             /\ steps' = g.steps
    /\ UNCHANGED << pin, files, logRows, idsAssigned, micInstalled, burst, motion, wrap >>

-----------------------------------------------------------------------------
(* Specifications *)

\* One boot; the button is the environment.
Init == InitOf(BOOLEAN, BOOLEAN, {TRUE}, BOOLEAN)

Next == Loop(MaxRings, BOOLEAN) \/ PinChange

Spec == Init /\ [][Next]_vars

\* Several boots on the same card.
InitRestart == InitOf({TRUE}, {TRUE}, {TRUE}, {FALSE})

NextRestart == Loop(RestartRings, {TRUE}) \/ PinChange \/ Restart

SpecRestart == InitRestart /\ [][NextRestart]_vars

\* One boot, loop() scheduled for ever.
NextFair == Loop(FairRings, BOOLEAN) \/ PinChange

SpecFair == Init /\ [][NextFair]_vars /\ WF_vars(Loop(FairRings, BOOLEAN))

\* One boot with more rings than the history holds; SD.open succeeds on a
\* mounted card.
InitRing == InitOf(BOOLEAN, BOOLEAN, {TRUE}, {FALSE})

NextRing == Loop(RingRounds, {TRUE}) \/ PinChange

SpecRing == InitRing /\ [][NextRing]_vars

\* One boot in which centrals connect and disconnect at any time.
InitBle == InitOf({TRUE}, {TRUE}, {TRUE}, BOOLEAN)

NextBle == Loop(BleRings, {TRUE}) \/ PinChange \/ onConnect \/ onDisconnect

SpecBle == InitBle /\ [][NextBle]_vars

\* One boot with clients of the web server; the card is mounted, SD.open
\* succeeds, and the time that a live feed takes is not followed.
InitWeb == InitOf({TRUE}, {TRUE}, {TRUE}, {FALSE})

NextWeb ==
    \/ LoopWeb(WebRings, {TRUE})
    \/ PinChange
    \/ \E r \in Requests : Request(r)
    \/ handleClient
    \/ handleStreamGet
    \/ handleStreamSend(FALSE)
    \/ ClientDisconnect

SpecWeb == InitWeb /\ [][NextWeb]_vars

\* One boot with clients of the live feed only.
InitFeed == InitOf({TRUE}, BOOLEAN, {TRUE}, {FALSE})

NextFeed ==
    \/ LoopFeed(WebRings)
    \/ PinChange
    \/ Request(HttpRequest("/stream", FALSE, 0))
    \/ handleStream
    \/ handleStreamGet
    \/ handleStreamSend(TRUE)
    \/ ClientDisconnect

SpecFeed == InitFeed /\ [][NextFeed]_vars

\* The same, with loop() and the handler it is in running for ever.
SpecFeedFair ==
    /\ SpecFeed
    /\ WF_vars(LoopFeed(WebRings))
    /\ WF_vars(handleStream)
    /\ WF_vars(handleStreamGet)
    /\ WF_vars(handleStreamSend(TRUE))

\* One boot after any combination of failed initialisations, loop()
\* scheduled for ever.
InitDegraded == InitAll(BOOLEAN, BOOLEAN, BOOLEAN, BOOLEAN, {FALSE})

NextDegraded == Loop(DegradedRings, BOOLEAN) \/ PinChange

SpecDegraded ==
    InitDegraded /\ [][NextDegraded]_vars /\ WF_vars(Loop(DegradedRings, BOOLEAN))

\* One boot after any combination of failed initialisations with Wi-Fi
\* connected; clients ask for photos and for the status.
InitServe == InitAll(BOOLEAN, BOOLEAN, BOOLEAN, {TRUE}, {FALSE})

ServeRequests == {r \in Requests : r.path \in {"/photo", "/status"}}

NextServe ==
    \/ LoopWeb(WebRings, {TRUE})
    \/ PinChange
    \/ \E r \in ServeRequests : Request(r)
    \/ handlePhoto
    \/ handleStatus

SpecServe == InitServe /\ [][NextServe]_vars

\* One boot in which millis() wraps after a time was recorded.
InitWrap == InitOf({TRUE}, {TRUE}, {TRUE}, {FALSE}) /\ pin = HIGH

NextWrap == (\E r \in WrapStarts : RecordAt(r)) \/ ClockTick(LOOP_DELAY_MS)

SpecWrap == InitWrap /\ [][NextWrap]_vars

\* One boot of the motion-detection sketch.
InitMotion == InitOf({TRUE}, BOOLEAN, {TRUE}, {FALSE})

NextMotion == MotionSetup \/ MotionLoop

SpecMotion == InitMotion /\ [][NextMotion]_vars

\* One boot in which the button is polled every LOOP_DELAY_MS and the pin,
\* released at first, makes a burst of transitions.
InitButton == InitOf({TRUE}, {TRUE}, {TRUE}, {FALSE}) /\ pin = HIGH

NextButton == Poll \/ Bounce

SpecButton == InitButton /\ [][NextButton]_vars

-----------------------------------------------------------------------------
(* Properties *)

\* A step that is an execution of loop(): only loop() lets time pass.
LoopStep == now' # now

Busy == {STATE_CAPTURING, STATE_NOTIFYING, STATE_COOLDOWN}

\* C1: at most one Event is in flight; an Event is created only by the
\* loop step that runs doCapture, which is the step after IDLE ->
\* CAPTURING; and the press that is accepted never is one whose falling
\* edge came while the controller was CAPTURING, NOTIFYING or in COOLDOWN.
C1_Serialized ==
    /\ [](sinceIdle <= 1)
    /\ [][(ringCount' # ringCount \/ created' # created) =>
             /\ currentState = STATE_CAPTURING
             /\ currentState' = STATE_NOTIFYING
             /\ ringCount' = ringCount + 1
             /\ Len(created') = Len(created) + 1]_vars
    /\ [][(currentState # STATE_CAPTURING /\ currentState' = STATE_CAPTURING) =>
             /\ currentState = STATE_IDLE
             /\ edgeState \notin Busy]_vars

\* C1 witness: a press that fell while the controller was busy is still held
\* after the controller returned to IDLE and polled, and only the one Event
\* of the first press exists.
C1_Witness ==
    /\ currentState = STATE_IDLE
    /\ Len(created) = 1
    /\ ringCount = 1
    /\ edgeState \in Busy
    /\ pin = LOW
    /\ Elapsed(now, stateEnteredAt) >= 2000

\* C2: the controller starts in IDLE and changes state only along
\* IDLE -> CAPTURING (isButtonPressed returned true in that iteration),
\* CAPTURING -> NOTIFYING (doCapture ran once), NOTIFYING -> COOLDOWN
\* (doNotify ran once) and COOLDOWN -> IDLE; CAPTURING and NOTIFYING are
\* left by the very next iteration.
C2_Transitions ==
    /\ currentState = STATE_IDLE
    /\ [][currentState' # currentState =>
             \/ /\ currentState = STATE_IDLE /\ currentState' = STATE_CAPTURING
                /\ isButtonPressed(lastButtonState, lastButtonPress, pin, SwitchTime).ret
                /\ created' = created /\ notifyRuns' = notifyRuns
             \/ /\ currentState = STATE_CAPTURING /\ currentState' = STATE_NOTIFYING
                /\ Len(created') = Len(created) + 1 /\ notifyRuns' = notifyRuns
             \/ /\ currentState = STATE_NOTIFYING /\ currentState' = STATE_COOLDOWN
                /\ notifyRuns' = notifyRuns + 1 /\ created' = created
             \/ /\ currentState = STATE_COOLDOWN /\ currentState' = STATE_IDLE
                /\ created' = created /\ notifyRuns' = notifyRuns]_vars
    /\ [][(LoopStep /\ currentState \in {STATE_CAPTURING, STATE_NOTIFYING}) =>
             currentState' # currentState]_vars

\* C2 witness: the machine went round once and is in CAPTURING again.
C2_Witness ==
    /\ currentState = STATE_CAPTURING
    /\ notifyRuns = 1
    /\ Len(created) = 1

C4_Original ==
    [][(LoopStep /\ currentState = STATE_COOLDOWN) =>
          (currentState' = STATE_IDLE <=>
              Elapsed(SwitchTime, lastButtonPress) >= COOLDOWN_MS)]_vars

\* C4 amended: COOLDOWN is entered after the trigger was accepted, is not
\* left before COOLDOWN_MS have passed since the trigger, and is left at the
\* first iteration at or after COOLDOWN_MS from the time it was entered.
C4_Amended ==
    /\ [](currentState = STATE_COOLDOWN => stateEnteredAt > lastButtonPress)
    /\ [][(LoopStep /\ currentState = STATE_COOLDOWN) =>
             /\ currentState' = STATE_IDLE =>
                   Elapsed(SwitchTime, lastButtonPress) >= COOLDOWN_MS
             /\ currentState' = STATE_IDLE <=>
                   Elapsed(SwitchTime, stateEnteredAt) >= COOLDOWN_MS]_vars

\* C4 witness: back in IDLE, later than COOLDOWN_MS after the trigger.
C4_Witness ==
    /\ currentState = STATE_IDLE
    /\ Len(created) >= 1
    /\ Elapsed(stateEnteredAt, lastButtonPress) > COOLDOWN_MS

\* C5: from the time c at which COOLDOWN is entered, every iteration with
\* millis() - c < COOLDOWN_MS leaves the controller in COOLDOWN with c
\* unchanged, the button changes nothing, and the first iteration with
\* millis() - c >= COOLDOWN_MS moves it to IDLE.
C5_CooldownDwell ==
    [][currentState = STATE_COOLDOWN =>
          IF LoopStep /\ Elapsed(SwitchTime, stateEnteredAt) >= COOLDOWN_MS
          THEN currentState' = STATE_IDLE
          ELSE /\ currentState' = STATE_COOLDOWN
               /\ stateEnteredAt' = stateEnteredAt
               /\ created' = created]_vars

\* C5 witness: the button was pressed during the cooldown, and the cooldown
\* has run its full time.
C5_Witness ==
    /\ currentState = STATE_IDLE
    /\ edgeState = STATE_COOLDOWN
    /\ Len(created) >= 1

\* The step in which doCapture runs.
CaptureStep == currentState = STATE_CAPTURING /\ currentState' = STATE_NOTIFYING

\* The highest Event id among the image and audio files of a card.
RECURSIVE MaxArtifactId(_)
MaxArtifactId(names) ==
    IF names = {} THEN 0
    ELSE LET name == CHOOSE n \in names : TRUE
             rest == MaxArtifactId(names \ {name})
             num == ToInt(name.digits)
         IN IF name.prefix = "ring_" /\ num > rest THEN num ELSE rest

\* C6 as stated: within a boot each id is the previous one plus 1, and the
\* first id of a boot whose card is mounted is one more than the highest id
\* among the artifact files on the card (1 when there are none).
C6_Claim ==
    [][CaptureStep =>
          /\ ringCount' = ringCount + 1
          /\ created # << >> => ringCount' = created[Len(created)].id + 1
          /\ (created = << >> /\ sdAvailable) =>
                ringCount' = MaxArtifactId(DOMAIN files) + 1]_vars

\* C7 as stated: with the card mounted, doCapture never assigns an id that
\* an Event of this or an earlier boot already has.
C7_Claim ==
    [][(CaptureStep /\ sdAvailable) => ringCount' \notin idsAssigned]_vars

\* C8 as stated: a file that is on the card stays there with its content.
C8_Claim ==
    [][\A n \in DOMAIN files : n \in DOMAIN files' /\ files'[n] = files[n]]_vars

Min(a, b) == IF a < b THEN a ELSE b

\* C9: after N doCapture runs in a boot the first ringHistoryCount entries
\* of ringHistory are the min(N, MAX_RING_HISTORY) Events created last, in
\* the order of their creation.
C9_RingHoldsLatest ==
    /\ ringHistoryCount = Min(Len(created), MAX_RING_HISTORY)
    /\ \A i \in 0 .. ringHistoryCount - 1 :
          ringHistory[i] = created[Len(created) - ringHistoryCount + i + 1]

\* C9 witness: more Events were created than the history holds.
C9_Witness ==
    /\ Len(created) > MAX_RING_HISTORY
    /\ ringHistoryCount = MAX_RING_HISTORY
    /\ currentState = STATE_COOLDOWN

\* The audio reference of a history entry (RingEvent has id, timestamp and
\* filename).
AudioRef(e) == IF "audio" \in DOMAIN e THEN e.audio ELSE EmptyString

\* C10 as stated: the history entry of a cycle whose frame grab failed and
\* whose audio recording succeeded has an empty image reference and a
\* non-empty audio reference.
C10_Claim ==
    \A i \in 0 .. ringHistoryCount - 1 :
        LET k == Len(created) - ringHistoryCount + i + 1
        IN (~captured[k].fb /\ captured[k].audio) =>
              /\ ringHistory[i].filename = EmptyString
              /\ AudioRef(ringHistory[i]) # EmptyString

\* The name of the still image of the Event with this id.
ImageName(id) == RingFileName(id, ".jpg")

\* C11 as stated: a non-empty image reference of a history entry is the name
\* derived from the entry's id and that file is on the card; an entry whose
\* image was not obtained or is not on the card has the empty reference.
C11_Claim ==
    \A i \in 0 .. ringHistoryCount - 1 :
        LET e == ringHistory[i]
            k == Len(created) - ringHistoryCount + i + 1
        IN /\ e.filename # EmptyString =>
                 (e.filename = ImageName(e.id) /\ e.filename \in DOMAIN files)
           /\ (~captured[k].fb \/ ImageName(e.id) \notin DOMAIN files) =>
                 e.filename = EmptyString

\* C12: an execution of loop() in NOTIFYING that finds no central connected
\* sends no notification and takes the controller to COOLDOWN.
C12_NoSubscriber ==
    [][(LoopStep /\ currentState = STATE_NOTIFYING /\ ~bleDeviceConnected) =>
          /\ notified' = notified
          /\ currentState' = STATE_COOLDOWN]_vars

\* C12 witness: a central was connected and left again before doNotify ran;
\* the cycle is in COOLDOWN and nothing was sent.
C12_Witness ==
    /\ currentState = STATE_COOLDOWN
    /\ connects = 1
    /\ steps # << >>
    /\ steps[Len(steps)] = Step(1, "notify", FALSE)
    /\ notified = << >>

\* C13: doNotify running with a central connected sends one notification,
\* which has the id of the Event just created; nothing else ever sends one
\* (a central connecting later gets nothing for earlier Events), so there is
\* at most one notification for an id and each was sent in the NOTIFYING step
\* of its Event.
C13_NotifyOnce ==
    /\ [][(LoopStep /\ currentState = STATE_NOTIFYING /\ bleDeviceConnected) =>
             /\ Len(notified') = Len(notified) + 1
             /\ notified'[Len(notified')].id = created[Len(created)].id]_vars
    /\ [][notified' # notified =>
             /\ currentState = STATE_NOTIFYING
             /\ currentState' = STATE_COOLDOWN
             /\ bleDeviceConnected
             /\ Len(notified') = Len(notified) + 1
             /\ SubSeq(notified', 1, Len(notified)) = notified]_vars
    /\ [](\A i, j \in DOMAIN notified : notified[i].id = notified[j].id => i = j)
    /\ [](\A i \in DOMAIN notified :
             \E k \in DOMAIN steps : steps[k] = Step(notified[i].id, "notify", TRUE))

\* C13 witness: Event 1 was notified to nobody, a central connected
\* afterwards, and the only notification is the one of Event 2.
C13_Witness ==
    /\ Len(created) = 2
    /\ bleDeviceConnected
    /\ \E k \in DOMAIN steps : steps[k] = Step(1, "notify", FALSE)
    /\ Len(notified) = 1
    /\ notified[1].id = 2
    /\ currentState = STATE_IDLE

\* The steps that the current execution of loop() adds.
NewSteps == SubSeq(steps', Len(steps) + 1, Len(steps'))

\* SD.open of log.csv succeeded in the current execution of loop().
LogOpened == \E k \in DOMAIN NewSteps : NewSteps[k].step = "log" /\ NewSteps[k].ok

\* C14: the execution of loop() in NOTIFYING appends one row with the id of
\* the Event just created when the card is mounted and log.csv opens,
\* whatever became of the image and the audio, and no row otherwise; in both
\* cases it takes the controller to COOLDOWN.  Rows are written by this step
\* only, which runs once per cycle.
C14_LogRow ==
    /\ [][(LoopStep /\ currentState = STATE_NOTIFYING) =>
             /\ currentState' = STATE_COOLDOWN
             /\ IF sdAvailable /\ LogOpened
                THEN /\ Len(logRows') = Len(logRows) + 1
                     /\ SubSeq(logRows', 1, Len(logRows)) = logRows
                     /\ logRows'[Len(logRows')].id = created[Len(created)].id
                ELSE logRows' = logRows]_vars
    /\ [][logRows' # logRows =>
             (currentState = STATE_NOTIFYING /\ notifyRuns' = notifyRuns + 1)]_vars

\* C14 witness: the first Event has neither image nor audio and has its row;
\* the second, whose log.csv could not be opened, has none and is in COOLDOWN.
C14_Witness ==
    /\ sdAvailable
    /\ currentState = STATE_COOLDOWN
    /\ Len(created) = 2
    /\ captured[1] = [fb |-> FALSE, audio |-> FALSE]
    /\ Len(logRows) = 1
    /\ logRows[1].id = 1
    /\ steps[Len(steps) - 1] = Step(2, "log", FALSE)

\* The order of the steps of one Event.
StepOrder == << "image", "audio", "log", "notify" >>

\* C15: the steps taken in a boot are, Event after Event in the order of
\* creation, the image, the audio, the log row and the notification of that
\* Event; only the last Event can still lack its log row and notification.
C15_StepOrder ==
    /\ \A k \in DOMAIN steps :
          /\ steps[k].step = StepOrder[((k - 1) % 4) + 1]
          /\ steps[k].id = created[((k - 1) \div 4) + 1].id
    /\ Len(steps) = 2 * Len(created) + 2 * notifyRuns
    /\ notifyRuns \in {Len(created) - 1, Len(created)}
    /\ notifyRuns = Len(created) - 1 <=> currentState = STATE_NOTIFYING

\* C15 witness: the second Event has its image and audio steps behind it,
\* after the four steps of the first.
C15_Witness ==
    /\ currentState = STATE_NOTIFYING
    /\ Len(steps) = 6
    /\ steps[4].id = 1
    /\ steps[5].id = 2

\* C16 as stated: loop() gets to its state machine in every iteration, so a
\* capture that is pending is executed and a cooldown is left, whatever
\* the web server is asked for.
C16_Claim ==
    /\ (currentState = STATE_CAPTURING) ~> (currentState = STATE_NOTIFYING)
    /\ (currentState = STATE_COOLDOWN) ~> (currentState = STATE_IDLE)

\* loop() is inside handleStream.
InStream == loopPos \in {"loop", "frame"}

\* C17: doCapture, and with it capturePhoto's use of the camera from
\* esp_camera_fb_get to esp_camera_fb_return, runs only when handleStream
\* is not running and holds no frame; handleStream asks for a frame only
\* between two executions of the state machine.
C17_CameraExclusive ==
    [][CaptureStep =>
          /\ ~InStream
          /\ fbOutstanding = 0
          /\ loopPos' = "top"]_vars

\* C17 witness: a capture has run after a live feed that sent a frame and
\* ended.
C17_Witness ==
    /\ currentState = STATE_NOTIFYING
    /\ Len(created) = 1
    /\ frames >= 1
    /\ ~clientConnected
    /\ fbOutstanding = 0

\* C18: the only frame buffer that is outstanding between two steps is the
\* one handleStream is sending; capturePhoto and handleStream have returned
\* theirs whenever they have returned.
C18_FramesReturned ==
    /\ fbOutstanding <= 1
    /\ fbOutstanding = 1 <=> loopPos = "frame"
    /\ ~InStream => fbOutstanding = 0

\* C18 witness: capturePhoto got a frame and could not open the file on the
\* mounted card, then a live feed sent a frame and lost its client.
C18_Witness ==
    /\ sdAvailable
    /\ Len(created) = 1
    /\ created[1].filename # EmptyString
    /\ created[1].filename \notin DOMAIN files
    /\ frames >= 1
    /\ loopPos = "switch"
    /\ ~clientConnected
    /\ fbOutstanding = 0

\* A step of a handler of the web server: handleClient dispatches, or
\* handleStream goes on.
HandlerStep == loopPos' # loopPos /\ loopPos' # "top"

\* C19: the steps of the handlers leave the state of the controller as it
\* is.
C19_HandlersReadOnly ==
    [][HandlerStep =>
          /\ currentState' = currentState
          /\ stateEnteredAt' = stateEnteredAt
          /\ ringCount' = ringCount
          /\ ringHistory' = ringHistory
          /\ ringHistoryCount' = ringHistoryCount
          /\ lastButtonPress' = lastButtonPress
          /\ lastButtonState' = lastButtonState]_vars

\* C19 witness: the photo of the Event in the history has been served, the
\* live feed has sent a frame, and the history still holds the Event.
C19_Witness ==
    /\ response = HttpResponse(200, "image/jpeg", Content(1, 1))
    /\ frames >= 1
    /\ loopPos = "switch"
    /\ ringHistoryCount = 1
    /\ ringHistory[0].id = 1
    /\ currentState = STATE_COOLDOWN

C21_Claim ==
    ~spaced =>
        /\ accepts <= 1
        /\ lastButtonState = LOW => accepts = 1

\* C22 as stated: a poll returns true exactly when it finds the pin LOW
\* after the previous poll found it HIGH and DEBOUNCE_MS or more have passed
\* since the press accepted last.
C22_Claim ==
    [][LoopStep =>
          /\ accepts' \in {accepts, accepts + 1}
          /\ accepts' = accepts + 1 <=>
                /\ lastButtonState = HIGH
                /\ pin = LOW
                /\ Elapsed(now, lastButtonPress) >= DEBOUNCE_MS]_vars

\* The step in which handlePhoto answers.
PhotoStep == request.path = "/photo" /\ loopPos = "top" /\ loopPos' = "switch"

\* The card is mounted and holds the image of this id.
Stored(id) == sdAvailable /\ ImageName(id) \in DOMAIN files

\* C23 as stated: a photo request with an id is answered with the bytes of
\* the image of that id when the card is mounted and holds it, with 404
\* otherwise, and a request without id with 400; no file is created or
\* changed.
C23_Claim ==
    [][PhotoStep =>
          /\ files' = files
          /\ logRows' = logRows
          /\ IF ~request.hasId THEN response'.code = 400
             ELSE IF Stored(request.id)
                  THEN /\ response'.code = 200
                       /\ response'.body = files[ImageName(request.id)]
             ELSE response'.code = 404]_vars

\* C23 amended: as above, but a stored image that SD.open fails to open is
\* answered with 500 instead of its bytes.
C23_PhotoAnswer ==
    [][PhotoStep =>
          /\ files' = files
          /\ logRows' = logRows
          /\ IF ~request.hasId THEN response'.code = 400
             ELSE IF Stored(request.id)
                  THEN \/ /\ response'.code = 200
                          /\ response'.type = "image/jpeg"
                          /\ response'.body = files[ImageName(request.id)]
                       \/ response'.code = 500
             ELSE response'.code = 404]_vars

\* C23 witness: the image of Event 1 is on the card and the request for it
\* was answered with 500.
C23_Witness ==
    /\ Stored(1)
    /\ response = HttpResponse(500, "text/plain", "Failed to open photo")
    /\ loopPos = "switch"

\* C24 as stated: the status tells of the camera, the microphone, the card
\* and BLE whether each was initialised.
C24_Claim ==
    (response.code = 200 /\ response.type = "application/json") =>
        LET b == response.body
        IN /\ "sd" \in DOMAIN b /\ b.sd = sdAvailable
           /\ "ble" \in DOMAIN b
           /\ "camera" \in DOMAIN b /\ b.camera = cameraAvailable
           /\ "mic" \in DOMAIN b /\ b.mic = micInstalled

\* The step of loop() that calls captureAndSaveJPEG().
JpegStep == detectionCount' # detectionCount

\* C25: when captureAndSaveJPEG has torn the grayscale configuration down,
\* the last thing it does before it returns, on every path, is the call of
\* initCamera(); if that call succeeds the camera is in grayscale mode when
\* the routine returns, and it never returns with the camera in JPEG mode.
C25_RestoresMode ==
    [][JpegStep =>
          LET calls == driverCalls'
          IN /\ cameraConfig' # "jpeg"
             /\ calls # << >> =>
                   /\ calls[1].call = "esp_camera_deinit"
                   /\ calls[Len(calls)].call = "initCamera"
                   /\ calls[Len(calls)].ok => cameraConfig' = "grayscale"]_vars

\* C25 witness: a still capture whose frame could not be obtained has
\* returned with the camera back in grayscale mode.
C25_Witness ==
    /\ detectionCount = 1
    /\ Len(driverCalls) = 5
    /\ driverCalls[3] = Call("esp_camera_fb_get", FALSE)
    /\ cameraConfig = "grayscale"
    /\ captureNumber = 0

\* C26 as stated: every log row and every notification has the id and the
\* timestamp of an Event of the history of this boot (the notification in
\* whole seconds, as it is printed).
C26_Claim ==
    /\ \A r \in DOMAIN logRows :
          \E k \in DOMAIN created :
              /\ created[k].id = logRows[r].id
              /\ created[k].timestamp = logRows[r].timestamp_ms
    /\ \A n \in DOMAIN notified :
          \E k \in DOMAIN created :
              /\ created[k].id = notified[n].id
              /\ created[k].timestamp \div 1000 = notified[n].seconds

\* C27 as stated, in the form a finite run refutes: an execution of loop()
\* whose reconnection check finds no central connected leaves advertising
\* running, so that advertising is off only while a central is connected or
\* until the first check after it has gone.
C27_Claim ==
    [][(LoopStep /\ ~bleDeviceConnected) => advertising']_vars

C29_HistoryIds ==
    /\ [](/\ 0 <= ringHistoryCount /\ ringHistoryCount <= MAX_RING_HISTORY
          /\ \A i \in 0 .. ringHistoryCount - 2 :
                ringHistory[i + 1].id = ringHistory[i].id + 1
          /\ ringHistoryCount > 0 => ringHistory[ringHistoryCount - 1].id = ringCount)
    /\ [][(LoopStep /\ currentState = STATE_NOTIFYING) =>
             /\ ringHistoryCount > 0
             /\ NewSteps = doNotifySteps(ringHistory[ringHistoryCount - 1].id,
                                         NewSteps[1].ok, NewSteps[2].ok)
             /\ created[Len(created)] = ringHistory[ringHistoryCount - 1]
             /\ steps[Len(steps)].id = ringCount
             /\ steps[Len(steps)].step = "audio"]_vars

\* C29 witness: the history is full and has dropped its first Event, and
\* doNotify has run for the Event appended last.
C29_Witness ==
    /\ ringHistoryCount = MAX_RING_HISTORY
    /\ ringHistory[0].id > 1
    /\ currentState = STATE_COOLDOWN
    /\ steps[Len(steps)] = Step(ringHistory[MAX_RING_HISTORY - 1].id, "notify", FALSE)

\* C30: with the time recorded in stateEnteredAt and in lastButtonPress, the
\* cooldown test and the debounce test computed from the unsigned long
\* values give what the time that truly passed gives, also when millis() has
\* wrapped since, as long as less than 2^WORD_BITS ms have passed.
C30_WrapSafe ==
    sinceRecorded > 0 =>
        /\ cooldownTest = (sinceRecorded >= COOLDOWN_MS)
        /\ debounceTest = (sinceRecorded > DEBOUNCE_MS)

\* C30 witness: millis() has wrapped since the time was recorded, the
\* cooldown has just run out and the test says so.
C30_Witness ==
    /\ now < stateEnteredAt
    /\ sinceRecorded = COOLDOWN_MS
    /\ cooldownTest
    /\ debounceTest

====
